---- MODULE Spec2Model ----
(***************************************************************************)
(* A model of website_scraper.py: the prompt loop of main, the crawl loop  *)
(* of WebsiteScraper.scrape_website, save_to_file and the KeyboardInterrupt*)
(* handler of main.                                                        *)
(*                                                                         *)
(* A URL string is a sequence of tokens (short pieces of text); the empty  *)
(* string is <<>> and concatenation is \o.  The delimiters ":", "//", "?"  *)
(* and "#" are tokens of their own and a path token begins with "/", so    *)
(* that urlparse and urlunparse are computed on the text as urllib does.   *)
(***************************************************************************)
EXTENDS Naturals, Sequences, FiniteSets, TLC

\* ------------------------------------------------------------------ bounds

\* The largest page budget (max_pages) a run is given.
MaxBudget == 3

\* The largest number of anchors (<a href>) on one page.
MaxLinks == 2

\* ------------------------------------------------------------ text helpers

\* Tokens made of scheme characters only (letters, digits, "+", "-", ".").
SchemeCharToks == {"http", "https", "e.com", "sub.e.com", "o.com", "top", "f"}

\* Tokens whose first character is "/".
SlashToks == {"/", "//", "/a", "/b"}

\* Tokens whose text begins with "http" (str.startswith('http')).
HttpToks == {"http", "https"}

\* s.find(t): the first position of token t in s, 0 when absent.
Find(s, t) ==
  IF \E i \in 1..Len(s) : s[i] = t
  THEN CHOOSE i \in 1..Len(s) : s[i] = t /\ \A j \in 1..(i - 1) : s[j] # t
  ELSE 0

\* s[:n] and s[n:] of Python, n counted in tokens.
Take(s, n) == SubSeq(s, 1, n)
Drop(s, n) == SubSeq(s, n + 1, Len(s))

\* urllib's _splitnetloc on a text that begins with "//": the position of the
\* first "/", "?" or "#" after it, the end of the netloc.
NetlocEnd(s) ==
  IF \E i \in 2..Len(s) : s[i] \in SlashToks \cup {"?", "#"}
  THEN CHOOSE i \in 2..Len(s) :
         /\ s[i] \in SlashToks \cup {"?", "#"}
         /\ \A j \in 2..(i - 1) : s[j] \notin SlashToks \cup {"?", "#"}
  ELSE Len(s) + 1

\* urlsplit, last step: the query is what follows the first "?" (at q).
SplitQuery(scheme, netloc, rest, fragment, q) ==
  [scheme |-> scheme, netloc |-> netloc,
   path |-> IF q > 0 THEN Take(rest, q - 1) ELSE rest,
   query |-> IF q > 0 THEN Drop(rest, q) ELSE <<>>,
   fragment |-> fragment]

\* urlsplit: the fragment is what follows the first "#" (at h).
SplitFragment(scheme, netloc, rest, h) ==
  IF h > 0
  THEN SplitQuery(scheme, netloc, Take(rest, h - 1), Drop(rest, h),
                  Find(Take(rest, h - 1), "?"))
  ELSE SplitQuery(scheme, netloc, rest, <<>>, Find(rest, "?"))

\* urlsplit: the netloc of a text that begins with "//" ends at e.
SplitNetloc(scheme, rest, e) ==
  IF Len(rest) >= 1 /\ rest[1] = "//"
  THEN SplitFragment(scheme, SubSeq(rest, 2, e - 1), Drop(rest, e - 1),
                     Find(Drop(rest, e - 1), "#"))
  ELSE SplitFragment(scheme, <<>>, rest, Find(rest, "#"))

\* urlsplit: the scheme is what precedes the first ":" (at i), when that is
\* made of scheme characters only.
SplitScheme(u, i) ==
  IF i > 1 /\ \A j \in 1..(i - 1) : u[j] \in SchemeCharToks
  THEN SplitNetloc(Take(u, i - 1), Drop(u, i), NetlocEnd(Drop(u, i)))
  ELSE SplitNetloc(<<>>, u, NetlocEnd(u))

\* urllib.parse.urlparse: scheme, netloc, path, query, fragment of a text.
urlparse(u) == SplitScheme(u, Find(u, ":"))

\* urlunsplit: "//" and the netloc before the path, made rooted.
UnsplitNetloc(p) ==
  IF p.netloc # <<>> \/ (p.scheme # <<>> /\ p.scheme[1] \in HttpToks
                         /\ (p.path = <<>> \/ p.path[1] # "//"))
  THEN <<"//">> \o p.netloc
         \o (IF p.path # <<>> /\ p.path[1] \notin SlashToks THEN <<"/">> ELSE <<>>)
         \o p.path
  ELSE p.path

\* urllib.parse.urlunparse: the text of the five components.
urlunparse(p) ==
  (IF p.scheme # <<>> THEN p.scheme \o <<":">> ELSE <<>>)
    \o UnsplitNetloc(p)
    \o (IF p.query # <<>> THEN <<"?">> \o p.query ELSE <<>>)
    \o (IF p.fragment # <<>> THEN <<"#">> \o p.fragment ELSE <<>>)

\* normalize_url with the fragment kept: only the query is emptied.
normalize_url_keeps_fragment(url) ==
  urlunparse([urlparse(url) EXCEPT !.query = <<>>])

\* WebsiteScraper.normalize_url
normalize_url(url) ==
  urlunparse([urlparse(url) EXCEPT !.query = <<>>, !.fragment = <<>>])

\* is_valid_url without the comparison to self.domain.
is_valid_url_any_host(url, dom) == urlparse(url).netloc # <<>>

\* WebsiteScraper.is_valid_url, self.domain given
is_valid_url(url, dom) == urlparse(url).netloc \in {dom} \ {<<>>}

\* urljoin on the parsed base b and the parsed reference r, the reference
\* being empty, absolute, scheme-relative, root-relative, query-only or
\* fragment-only.
JoinParsed(base, url, b, r) ==
  IF base = <<>> THEN url
  ELSE IF url = <<>> THEN base
  ELSE IF r.scheme # <<>> /\ (r.scheme # b.scheme \/ r.scheme[1] \notin HttpToks)
       THEN url
  ELSE IF r.netloc # <<>> THEN urlunparse([r EXCEPT !.scheme = b.scheme])
  ELSE IF r.path = <<>>
       THEN urlunparse([r EXCEPT !.scheme = b.scheme, !.netloc = b.netloc,
                          !.path = b.path,
                          !.query = IF r.query = <<>> THEN b.query ELSE r.query])
       ELSE urlunparse([r EXCEPT !.scheme = b.scheme, !.netloc = b.netloc])

\* urllib.parse.urljoin
urljoin(base, url) == JoinParsed(base, url, urlparse(base), urlparse(url))

\* str.startswith('http')
StartsWithHttp(link) == link # <<>> /\ link[1] \in HttpToks

\* --------------------------------------------------------- the environment

\* What the user may type at the prompt of main.
Inputs ==
  { <<"e.com">>,
    <<"https", ":", "//", "e.com", "/a", "?", "x=1">>,
    <<>>,
    <<"/a">> }

\* The href values an anchor of a page may carry.
Hrefs ==
  { <<"https", ":", "//", "e.com", "/a", "?", "x=1">>,
    <<"https", ":", "//", "e.com", "/a", "?", "x=2">>,
    <<"/b", "#", "f">>,
    <<"#", "top">>,
    <<"https", ":", "//", "sub.e.com", "/a">>,
    <<"https", ":", "//", "o.com", "/">> }

\* The texts normalize_url is tried on: every combination of a scheme, a
\* netloc (with and without port), a rooted path, a query and a fragment,
\* each present or absent.
Urls ==
  { sch \o net \o path \o qry \o frg :
      sch \in {<<>>, <<"https", ":">>, <<"http", ":">>},
      net \in {<<>>, <<"//", "e.com">>, <<"//", "e.com", ":", "8080">>},
      path \in {<<>>, <<"/">>, <<"/a">>, <<"/a", "/b">>},
      qry \in {<<>>, <<"?">>, <<"?", "x=1">>, <<"?", "x=2">>},
      frg \in {<<>>, <<"#", "f">>, <<"#", "f", "?", "x=1">>} }

\* The anchors of a page, in document order.
AnchorLists == UNION { [1..n -> Hrefs] : n \in 0..MaxLinks }

\* The phrases of a page's visible text after line 47 stripped them; a page
\* is the sequence of its phrases, some of them empty.
Bodies ==
  { << <<>> >>,
    << <<>>, <<"A">> >>,
    << <<"B">>, <<>> >>,
    << <<"A">>, <<"B">> >> }

\* ------------------------------------------------------- the pure functions

\* validate_url
Truthy(result) == result.scheme # <<>> /\ result.netloc # <<>>
validate_url(url) == Truthy(urlparse(url))

\* main, lines 131-134: the URL made of the typed text
PromptUrl(domain) ==
  IF Len(domain) >= 3 /\ domain[1] \in HttpToks /\ domain[2] = ":" /\ domain[3] = "//"
  THEN domain
  ELSE <<"https", ":", "//">> \o domain

\* '\n'.join(chunk for chunk in chunks if chunk)
JoinChunks(chunks) ==
  LET kept == SelectSeq(chunks, LAMBDA c : c # <<>>)
      joined[i \in 0..Len(kept)] ==
        IF i = 0 THEN <<>>
        ELSE IF i = 1 THEN kept[1]
        ELSE joined[i - 1] \o <<"\n">> \o kept[i]
  IN joined[Len(kept)]

\* WebsiteScraper.extract_text on the phrases of a page
extract_text(body) == JoinChunks(body)

\* str.strip: the text between its first and its last non-whitespace token
Whitespace == {" ", "\n", "\t"}
Strip(s) ==
  LET ink == {i \in 1..Len(s) : s[i] \notin Whitespace}
  IN IF ink = {} THEN <<>>
     ELSE SubSeq(s, CHOOSE i \in ink : \A j \in ink : i <= j,
                    CHOOSE i \in ink : \A j \in ink : j <= i)

\* md5(text.encode('utf-8')).hexdigest()
md5(t) ==
  CASE t = <<>> -> "d41d8cd9"
    [] t = <<"A">> -> "7fc56270"
    [] t = <<"B">> -> "9d5ed678"
    [] t = <<"A", "\n", "B">> -> "30d54f2e"
    [] OTHER -> "other"

\* get_all_links without the test against visited_urls of line 38.
get_all_links_revisits(hrefs, page_url, dom, visited) ==
  LET Normalized(href) ==
        normalize_url(IF ~StartsWithHttp(href) THEN urljoin(page_url, href) ELSE href)
      all == [i \in 1..Len(hrefs) |-> Normalized(hrefs[i])]
  IN SelectSeq(all, LAMBDA n : is_valid_url(n, dom))

\* WebsiteScraper.get_all_links: the anchors of a page kept, in order
get_all_links(hrefs, page_url, dom, visited) ==
  LET Normalized(href) ==
        normalize_url(IF ~StartsWithHttp(href) THEN urljoin(page_url, href) ELSE href)
      all == [i \in 1..Len(hrefs) |-> Normalized(hrefs[i])]
  IN SelectSeq(all, LAMBDA n : is_valid_url(n, dom) /\ n \notin visited)

\* The f-string of line 89: a page block of the output.
PageContent(nurl, t) == [url |-> nurl, text |-> t]

\* scrape_website, lines 69 and 93: the URLs put on urls_to_visit so far, each
\* once and in the order of its first insertion, after new is appended.
RECURSIVE FirstInsertions(_, _)
FirstInsertions(seen, new) ==
  IF new = <<>>
  THEN seen
  ELSE FirstInsertions(IF \E i \in 1..Len(seen) : seen[i] = Head(new)
                       THEN seen
                       ELSE Append(seen, Head(new)),
                       Tail(new))

\* ------------------------------------------------------------------- state

VARIABLES
  pc,             \* the position of main
  handler,        \* TRUE in the except KeyboardInterrupt branch of main
  base_url,       \* self.base_url
  domain,         \* self.domain
  max_pages,      \* self.max_pages
  visited_urls,   \* self.visited_urls
  text_hashes,    \* self.text_hashes
  text_content,   \* self.text_content
  urls_to_visit,  \* scrape_website's frontier
  inserted,       \* the distinct URLs put on urls_to_visit, by first insertion
  url,            \* scrape_website's url
  normalized_url, \* scrape_website's normalized_url
  links,          \* scrape_website's links
  text,           \* scrape_website's text
  content_hash,   \* scrape_website's content_hash
  outcome,        \* how the last scrape_page ended: error, nonhtml or html
  fetched,        \* the URLs requests.get was called with, in order
  delays,         \* the number of calls of time.sleep
  interrupted,    \* where KeyboardInterrupt was raised and what was accumulated
  docs            \* the files save_to_file opened, each with what was written

vars == <<pc, handler, base_url, domain, max_pages, visited_urls, text_hashes,
          text_content, urls_to_visit, inserted, url, normalized_url, links,
          text, content_hash, outcome, fetched, delays, interrupted, docs>>

scraper == <<base_url, domain, max_pages>>
crawl == <<visited_urls, text_hashes, text_content, urls_to_visit, inserted>>
locals == <<url, normalized_url, links, text, content_hash>>

None == <<"None">>
NotInterrupted == [at |-> "None", content |-> <<>>]

Init ==
  /\ pc = "prompt"
  /\ handler = FALSE
  /\ base_url = None
  /\ domain = None
  /\ max_pages = 0
  /\ visited_urls = {}
  /\ text_hashes = {}
  /\ text_content = <<>>
  /\ urls_to_visit = <<>>
  /\ inserted = <<>>
  /\ url = None
  /\ normalized_url = None
  /\ links = <<>>
  /\ text = <<>>
  /\ content_hash = "None"
  /\ outcome = "None"
  /\ fetched = <<>>
  /\ delays = 0
  /\ interrupted = NotInterrupted
  /\ docs = <<>>

\* main, lines 129-143, and WebsiteScraper.__init__: one turn of the prompt
\* loop; a valid URL constructs the scraper.
Prompt ==
  /\ pc = "prompt"
  /\ \E typed \in Inputs, budget \in 0..MaxBudget :
       LET u == PromptUrl(typed)
       IN IF validate_url(u)
          THEN /\ base_url' = u
               /\ domain' = urlparse(u).netloc
               /\ max_pages' = budget
               /\ pc' = "start"
          ELSE /\ UNCHANGED scraper
               /\ pc' = "prompt"
  /\ UNCHANGED <<handler, crawl, locals, outcome, fetched, delays,
                 interrupted, docs>>

\* scrape_website, line 69
Start ==
  /\ pc = "start"
  /\ urls_to_visit' = <<base_url>>
  /\ inserted' = <<normalize_url(base_url)>>
  /\ pc' = "loop"
  /\ UNCHANGED <<handler, scraper, visited_urls, text_hashes, text_content,
                 locals, outcome, fetched, delays, interrupted, docs>>

\* The loop condition with <= for <.
LoopTestOffByOne ==
  /\ pc = "loop"
  /\ pc' = IF urls_to_visit # <<>> /\ Cardinality(visited_urls) <= max_pages
           THEN "dequeue" ELSE "save_open"
  /\ UNCHANGED <<handler, scraper, crawl, locals, outcome, fetched, delays,
                 interrupted, docs>>

\* The loop condition without the budget.
LoopTestIgnoresBudget ==
  /\ pc = "loop"
  /\ pc' = IF urls_to_visit # <<>> THEN "dequeue" ELSE "save_open"
  /\ UNCHANGED <<handler, scraper, crawl, locals, outcome, fetched, delays,
                 interrupted, docs>>

\* scrape_website, line 71: the loop condition
LoopTest ==
  /\ pc = "loop"
  /\ pc' = IF urls_to_visit # <<>> /\ Cardinality(visited_urls) < max_pages
           THEN "dequeue" ELSE "save_open"
  /\ UNCHANGED <<handler, scraper, crawl, locals, outcome, fetched, delays,
                 interrupted, docs>>

\* Lines 72-76 without the test of line 75.
DequeueNoSkip ==
  /\ pc = "dequeue"
  /\ url' = Head(urls_to_visit)
  /\ urls_to_visit' = Tail(urls_to_visit)
  /\ inserted' = inserted
  /\ normalized_url' = normalize_url(Head(urls_to_visit))
  /\ pc' = "mark"
  /\ UNCHANGED <<handler, scraper, visited_urls, text_hashes, text_content,
                 links, text, content_hash, outcome, fetched, delays,
                 interrupted, docs>>

\* Lines 72-76 with pop() for pop(0): the newest entry is taken.
DequeueLifo ==
  /\ pc = "dequeue"
  /\ url' = urls_to_visit[Len(urls_to_visit)]
  /\ urls_to_visit' = SubSeq(urls_to_visit, 1, Len(urls_to_visit) - 1)
  /\ inserted' = inserted
  /\ normalized_url' = normalize_url(urls_to_visit[Len(urls_to_visit)])
  /\ pc' = IF normalized_url' \in visited_urls THEN "loop" ELSE "mark"
  /\ UNCHANGED <<handler, scraper, visited_urls, text_hashes, text_content,
                 links, text, content_hash, outcome, fetched, delays,
                 interrupted, docs>>

\* scrape_website, lines 72-76
Dequeue ==
  /\ pc = "dequeue"
  /\ url' = Head(urls_to_visit)
  /\ urls_to_visit' = Tail(urls_to_visit)
  /\ inserted' = inserted
  /\ normalized_url' = normalize_url(Head(urls_to_visit))
  /\ pc' = IF normalized_url' \in visited_urls THEN "loop" ELSE "mark"
  /\ UNCHANGED <<handler, scraper, visited_urls, text_hashes, text_content,
                 links, text, content_hash, outcome, fetched, delays,
                 interrupted, docs>>

\* scrape_website, line 78
Mark ==
  /\ pc = "mark"
  /\ visited_urls' = visited_urls \cup {normalized_url}
  /\ pc' = "request"
  /\ UNCHANGED <<handler, scraper, text_hashes, text_content, urls_to_visit,
                 inserted, locals, outcome, fetched, delays, interrupted, docs>>

\* scrape_page, lines 52-53: requests.get is called
Request ==
  /\ pc = "request"
  /\ fetched' = Append(fetched, url)
  /\ pc' = "response"
  /\ UNCHANGED <<handler, scraper, crawl, locals, outcome, delays, interrupted,
                 docs>>

\* scrape_page without its except clause: a failure leaves main.
ResponseUncaught ==
  /\ pc = "response"
  /\ \/ /\ outcome' = "error"
        /\ links' = links
        /\ text' = text
        /\ pc' = "killed"
     \/ /\ outcome' = "nonhtml"
        /\ links' = <<>>
        /\ text' = <<>>
        /\ pc' = "blank"
     \/ /\ outcome' = "html"
        /\ \E hrefs \in AnchorLists :
             links' = get_all_links(hrefs, url, domain, visited_urls)
        /\ \E body \in Bodies : text' = extract_text(body)
        /\ pc' = "blank"
  /\ UNCHANGED <<handler, scraper, crawl, url, normalized_url, content_hash,
                 fetched, delays, interrupted, docs>>

\* scrape_page, lines 53-66, and the assignment of line 79: the request fails
\* or the parser raises (lines 64-66), the content type is not HTML (lines
\* 56-57), or the page is parsed (lines 59-63).
Response ==
  /\ pc = "response"
  /\ \/ /\ \E kind \in {"error", "nonhtml"} : outcome' = kind
        /\ links' = <<>>
        /\ text' = <<>>
     \/ /\ outcome' = "html"
        /\ \E hrefs \in AnchorLists :
             links' = get_all_links(hrefs, url, domain, visited_urls)
        /\ \E body \in Bodies : text' = extract_text(body)
  /\ pc' = "blank"
  /\ UNCHANGED <<handler, scraper, crawl, url, normalized_url, content_hash,
                 fetched, delays, interrupted, docs>>

\* Lines 81-82 with the links appended before the text is tested.
BlankTestAfterLinks ==
  /\ pc = "blank"
  /\ urls_to_visit' = urls_to_visit \o links
  /\ inserted' = FirstInsertions(inserted, links)
  /\ pc' = IF Strip(text) = <<>> THEN "loop" ELSE "hash"
  /\ UNCHANGED <<handler, scraper, visited_urls, text_hashes, text_content,
                 locals, outcome, fetched, delays, interrupted, docs>>

\* scrape_website, lines 81-82
BlankTest ==
  /\ pc = "blank"
  /\ pc' = IF Strip(text) = <<>> THEN "loop" ELSE "hash"
  /\ UNCHANGED <<handler, scraper, crawl, locals, outcome, fetched, delays,
                 interrupted, docs>>

\* Lines 84-86 without the test of line 85.
HashTestNoDedup ==
  /\ pc = "hash"
  /\ content_hash' = md5(text)
  /\ pc' = "add_hash"
  /\ UNCHANGED <<handler, scraper, crawl, url, normalized_url, links, text,
                 outcome, fetched, delays, interrupted, docs>>

\* Lines 84-86 with the links of a duplicate page appended before continue.
HashTestPropagates ==
  /\ pc = "hash"
  /\ content_hash' = md5(text)
  /\ IF content_hash' \in text_hashes
     THEN /\ urls_to_visit' = urls_to_visit \o links
          /\ inserted' = FirstInsertions(inserted, links)
          /\ pc' = "loop"
     ELSE /\ urls_to_visit' = urls_to_visit
          /\ inserted' = inserted
          /\ pc' = "add_hash"
  /\ UNCHANGED <<handler, scraper, visited_urls, text_hashes, text_content,
                 url, normalized_url, links, text, outcome, fetched, delays,
                 interrupted, docs>>

\* scrape_website, lines 84-86
HashTest ==
  /\ pc = "hash"
  /\ content_hash' = md5(text)
  /\ pc' = IF content_hash' \in text_hashes THEN "loop" ELSE "add_hash"
  /\ UNCHANGED <<handler, scraper, crawl, url, normalized_url, links, text,
                 outcome, fetched, delays, interrupted, docs>>

\* Line 88 left out: the hash of a kept page is not recorded.
AddHashForgets ==
  /\ pc = "add_hash"
  /\ text_hashes' = text_hashes
  /\ pc' = "append"
  /\ UNCHANGED <<handler, scraper, visited_urls, text_content, urls_to_visit,
                 inserted, locals, outcome, fetched, delays, interrupted, docs>>

\* scrape_website, line 88
AddHash ==
  /\ pc = "add_hash"
  /\ text_hashes' = text_hashes \cup {content_hash}
  /\ pc' = "append"
  /\ UNCHANGED <<handler, scraper, visited_urls, text_content, urls_to_visit,
                 inserted, locals, outcome, fetched, delays, interrupted, docs>>

\* Lines 89-90 with the list assigned anew instead of appended to.
AppendContentOverwrites ==
  /\ pc = "append"
  /\ text_content' = <<PageContent(normalized_url, text)>>
  /\ pc' = "sleep"
  /\ UNCHANGED <<handler, scraper, visited_urls, text_hashes, urls_to_visit,
                 inserted, locals, outcome, fetched, delays, interrupted, docs>>

\* scrape_website, lines 89-90
AppendContent ==
  /\ pc = "append"
  /\ text_content' = Append(text_content, PageContent(normalized_url, text))
  /\ pc' = "sleep"
  /\ UNCHANGED <<handler, scraper, visited_urls, text_hashes, urls_to_visit,
                 inserted, locals, outcome, fetched, delays, interrupted, docs>>

\* scrape_website, line 92
Sleep ==
  /\ pc = "sleep"
  /\ delays' = delays + 1
  /\ pc' = "extend"
  /\ UNCHANGED <<handler, scraper, crawl, locals, outcome, fetched,
                 interrupted, docs>>

\* scrape_website, line 93
Extend ==
  /\ pc = "extend"
  /\ urls_to_visit' = urls_to_visit \o links
  /\ inserted' = FirstInsertions(inserted, links)
  /\ pc' = "loop"
  /\ UNCHANGED <<handler, scraper, visited_urls, text_hashes, text_content,
                 locals, outcome, fetched, delays, interrupted, docs>>

\* save_to_file, lines 96-105: the file is created empty
SaveOpen ==
  /\ pc = "save_open"
  /\ docs' = Append(docs, [header |-> <<>>, blocks |-> <<>>, closed |-> FALSE])
  /\ pc' = "save_header"
  /\ UNCHANGED <<handler, scraper, crawl, locals, outcome, fetched, delays,
                 interrupted>>

\* save_to_file, lines 106-109
SaveHeader ==
  /\ pc = "save_header"
  /\ docs' = [docs EXCEPT ![Len(docs)].header =
                <<[source |-> base_url, pages |-> Cardinality(visited_urls)]>>]
  /\ pc' = "save_block"
  /\ UNCHANGED <<handler, scraper, crawl, locals, outcome, fetched, delays,
                 interrupted>>

\* The for loop of lines 110-111 ending one entry early.
SaveBlockOffByOne ==
  /\ pc = "save_block"
  /\ LET n == Len(docs[Len(docs)].blocks)
     IN IF n + 1 < Len(text_content)
        THEN /\ docs' = [docs EXCEPT ![Len(docs)].blocks =
                           Append(@, text_content[n + 1])]
             /\ pc' = "save_block"
        ELSE /\ docs' = docs
             /\ pc' = "save_close"
  /\ UNCHANGED <<handler, scraper, crawl, locals, outcome, fetched, delays,
                 interrupted>>

\* save_to_file, lines 110-111: one turn of the for loop, or its end
SaveBlock ==
  /\ pc = "save_block"
  /\ LET n == Len(docs[Len(docs)].blocks)
     IN IF n < Len(text_content)
        THEN /\ docs' = [docs EXCEPT ![Len(docs)].blocks =
                           Append(@, text_content[n + 1])]
             /\ pc' = "save_block"
        ELSE /\ docs' = docs
             /\ pc' = "save_close"
  /\ UNCHANGED <<handler, scraper, crawl, locals, outcome, fetched, delays,
                 interrupted>>

\* save_to_file, lines 105 (the with block ends) and 113-116; back in main
SaveClose ==
  /\ pc = "save_close"
  /\ docs' = [docs EXCEPT ![Len(docs)].closed = TRUE]
  /\ pc' = IF handler THEN "exit" ELSE "ask"
  /\ UNCHANGED <<handler, scraper, crawl, locals, outcome, fetched, delays,
                 interrupted>>

\* main, lines 149-150
Ask ==
  /\ pc = "ask"
  /\ pc' = "exit"
  /\ UNCHANGED <<handler, scraper, crawl, locals, outcome, fetched, delays,
                 interrupted, docs>>

\* The positions of main inside its try block.
TryPcs ==
  {"start", "loop", "dequeue", "mark", "request", "response", "blank", "hash",
   "add_hash", "append", "sleep", "extend", "save_open", "save_header",
   "save_block", "save_close", "ask"}

\* The positions of scrape_website's loop.
LoopPcs ==
  {"loop", "dequeue", "mark", "request", "response", "blank", "hash",
   "add_hash", "append", "sleep", "extend"}

\* KeyboardInterrupt: inside the try block it is caught at line 152 and the
\* handler saves; at the prompt or inside the handler it ends the process.
Interrupt ==
  /\ pc \in TryPcs \cup {"prompt"}
  /\ IF pc \in TryPcs /\ ~handler
     THEN /\ handler' = TRUE
          /\ interrupted' = [at |-> pc, content |-> text_content]
          /\ pc' = "save_open"
     ELSE /\ handler' = handler
          /\ interrupted' = interrupted
          /\ pc' = "killed"
  /\ UNCHANGED <<scraper, crawl, locals, outcome, fetched, delays, docs>>

\* A step of the program itself.
Run ==
  \/ Prompt
  \/ Start
  \/ LoopTest
  \/ Dequeue
  \/ Mark
  \/ Request
  \/ Response
  \/ BlankTest
  \/ HashTest
  \/ AddHash
  \/ AppendContent
  \/ Sleep
  \/ Extend
  \/ SaveOpen
  \/ SaveHeader
  \/ SaveBlock
  \/ SaveClose
  \/ Ask

Next ==
  \/ Run
  \/ Interrupt

Spec == Init /\ [][Next]_vars

\* normalize_url applied to a text of Urls.
InitNormalize ==
  /\ pc = "normalize"
  /\ handler = FALSE
  /\ base_url = None
  /\ domain = None
  /\ max_pages = 0
  /\ visited_urls = {}
  /\ text_hashes = {}
  /\ text_content = <<>>
  /\ urls_to_visit = <<>>
  /\ inserted = <<>>
  /\ url \in Urls
  /\ normalized_url = None
  /\ links = <<>>
  /\ text = <<>>
  /\ content_hash = "None"
  /\ outcome = "None"
  /\ fetched = <<>>
  /\ delays = 0
  /\ interrupted = NotInterrupted
  /\ docs = <<>>

Normalize ==
  /\ pc = "normalize"
  /\ normalized_url' = normalize_url(url)
  /\ pc' = "normalized"
  /\ UNCHANGED <<handler, scraper, crawl, url, links, text, content_hash,
                 outcome, fetched, delays, interrupted, docs>>

NormalizeSpec == InitNormalize /\ [][Normalize]_vars

\* A run that no signal interrupts: the interpreter keeps executing main.
RunSpec == Init /\ [][Run]_vars /\ WF_vars(Run)

\* ------------------------------------------------------------- properties

\* s is an initial part of t.
IsPrefix(s, t) == Len(s) <= Len(t) /\ SubSeq(t, 1, Len(s)) = s

\* The interrupt was caught while scrape_website's loop was running.
InterruptedInLoop == handler /\ interrupted.at \in LoopPcs

\* A step in which KeyboardInterrupt is caught.
Caught == ~handler /\ handler'

\* C1: requests.get is called at most once for every normalized URL, however
\* often the URL or a variant of it was put on the frontier and whether or
\* not its first fetch succeeded.
C1_FetchedAtMostOnce ==
  \A i, j \in 1..Len(fetched) :
    i # j => normalize_url(fetched[i]) # normalize_url(fetched[j])

\* A URL whose only fetch failed is at the head of the frontier again, with
\* budget left to fetch it.
C1_Witness ==
  /\ pc = "dequeue"
  /\ outcome = "error"
  /\ Len(fetched) >= 2
  /\ normalize_url(Head(urls_to_visit)) = normalize_url(fetched[Len(fetched)])

\* C2 as stated: in every state |visited_urls| <= max_pages and the number of
\* requests.get calls equals |visited_urls|.
C2_Original ==
  /\ Cardinality(visited_urls) <= max_pages
  /\ Len(fetched) = Cardinality(visited_urls)

\* The URL of line 78 is in visited_urls and requests.get has not been called
\* for it: the loop is between lines 78 and 53, or was interrupted there.
MarkedNotRequested == pc = "request" \/ interrupted.at = "request"

\* C2, amended: |visited_urls| <= max_pages in every state; the number of
\* requests.get calls equals |visited_urls|, except between line 78 and the
\* call of line 53 (and after an interrupt caught there), where it is one
\* less; with max_pages = 1 nothing but the seed is fetched, and the seed is
\* when the loop ends.
C2_BudgetAndFetches ==
  /\ Cardinality(visited_urls) <= max_pages
  /\ Cardinality(visited_urls) =
       Len(fetched) + (IF MarkedNotRequested THEN 1 ELSE 0)
  /\ max_pages = 1 =>
       /\ fetched \in {<<>>, <<base_url>>}
       /\ (pc = "save_open" /\ ~handler) => fetched = <<base_url>>

\* With a budget of one the loop has ended after fetching the seed, whose
\* in-scope links are still on the frontier.
C2_Witness ==
  /\ max_pages = 1
  /\ pc = "save_open"
  /\ ~handler
  /\ urls_to_visit # <<>>
  /\ fetched = <<base_url>>

\* C3: no two entries of text_content carry the same extracted text.
C3_OneRecordPerText ==
  \A i, j \in 1..Len(text_content) :
    i # j => text_content[i].text # text_content[j].text

\* A page was processed whose text another page's record already carries;
\* it has no record of its own.
C3_Witness ==
  /\ pc = "loop"
  /\ outcome = "html"
  /\ Strip(text) # <<>>
  /\ \E i \in 1..Len(text_content) : text_content[i].text = text
  /\ \A i \in 1..Len(text_content) : text_content[i].url # normalized_url
  /\ normalized_url \in visited_urls

\* C4: every URL on the frontier has a non-empty host, which is the host of
\* the seed (self.domain).
C4_FrontierInScope ==
  /\ base_url # None => domain = urlparse(base_url).netloc /\ domain # <<>>
  /\ \A i \in 1..Len(urls_to_visit) :
       /\ urlparse(urls_to_visit[i]).netloc # <<>>
       /\ urlparse(urls_to_visit[i]).netloc = domain

\* Two links found on a page have just been appended to the frontier.
C4_Witness ==
  /\ pc = "loop"
  /\ Len(links) = 2
  /\ urls_to_visit = links
  /\ text_content # <<>>
  /\ text_content[Len(text_content)].url = normalized_url

\* The page just scraped is not HTML, or is HTML with blank text.
NoTextPage == outcome = "nonhtml" \/ (outcome = "html" /\ Strip(text) = <<>>)

\* C5: processing a page that is not HTML, or whose text is blank, adds
\* nothing to the frontier, to text_hashes or to text_content, whatever links
\* were found on it; of the crawl state only visited_urls changes, by the
\* page's URL (line 78).
C5_NoTextNoEffect ==
  [][ /\ pc = "mark" =>
           /\ UNCHANGED <<urls_to_visit, text_hashes, text_content>>
           /\ visited_urls' \in {visited_urls, visited_urls \cup {normalized_url}}
      /\ pc \in {"request", "response"} => UNCHANGED crawl
      /\ (pc = "response" /\ ~Caught /\ outcome' = "nonhtml") =>
           links' = <<>> /\ text' = <<>>
      /\ (pc = "blank" /\ NoTextPage) =>
           /\ UNCHANGED crawl
           /\ pc' = "loop" \/ Caught
    ]_vars

\* An HTML page with blank text and in-scope, unvisited links has been
\* processed: it is visited and nothing else was kept of it.
C5_Witness ==
  /\ pc = "loop"
  /\ outcome = "html"
  /\ Strip(text) = <<>>
  /\ links # <<>>
  /\ visited_urls = {normalized_url}
  /\ urls_to_visit = <<>>
  /\ text_hashes = {}
  /\ text_content = <<>>

\* C6: when the request fails or the parser raises, scrape_page returns no
\* links and no text, the loop continues with the next iteration, nothing is
\* added to text_content, text_hashes or the frontier, and the URL stays in
\* visited_urls; the remaining frontier entries are processed.
C6_FailureIsSkipped ==
  [][ /\ (pc = "response" /\ ~Caught /\ outcome' = "error") =>
           /\ links' = <<>> /\ text' = <<>>
           /\ pc' = "blank"
           /\ UNCHANGED crawl
      /\ (pc = "blank" /\ outcome = "error") =>
           /\ normalized_url \in visited_urls
           /\ UNCHANGED crawl
           /\ pc' = "loop" \/ Caught
      /\ (pc = "loop" /\ outcome = "error" /\ urls_to_visit # <<>>
            /\ Cardinality(visited_urls) < max_pages) =>
           pc' = "dequeue" \/ Caught
    ]_vars

\* After the fetch of a linked page failed the loop went on to the next
\* frontier entry; the failed URL is visited and has no record.
C6_Witness ==
  /\ pc = "dequeue"
  /\ outcome = "error"
  /\ Len(fetched) = 2
  /\ normalize_url(fetched[2]) = normalized_url
  /\ normalized_url \in visited_urls
  /\ Len(text_content) = 1
  /\ text_content[1].url # normalized_url

\* C7: when KeyboardInterrupt is caught while the loop runs, the document
\* the handler writes holds the entries text_content had at that point, whole
\* and in order, and nothing else.
C7_InterruptedSave ==
  InterruptedInLoop =>
    /\ text_content = interrupted.content
    /\ Len(docs) <= 1
    /\ \A d \in 1..Len(docs) : IsPrefix(docs[d].blocks, interrupted.content)
    /\ pc = "exit" =>
         /\ Len(docs) = 1
         /\ docs[1].closed
         /\ docs[1].header # <<>>
         /\ docs[1].blocks = interrupted.content

\* Interrupted in the loop with three pages accumulated, the handler has
\* written the document with these three blocks.
C7_Witness ==
  /\ pc = "exit"
  /\ InterruptedInLoop
  /\ Len(interrupted.content) = 3
  /\ Len(docs[1].blocks) = 3

\* The page just scraped has text whose hash is already in text_hashes.
DuplicateText == pc = "hash" /\ md5(text) \in text_hashes

\* C8 as stated: a page with non-blank text whose hash is already known gets
\* no record, and when its iteration ends its links are on the frontier tail.
C8_Original ==
  [][ (DuplicateText /\ pc' = "loop") =>
        /\ text_content' = text_content
        /\ urls_to_visit' = urls_to_visit \o links
    ]_vars

\* C8, amended: a page with non-blank text whose hash is already known gets
\* no record and its links are not appended to the frontier (line 86
\* continues before line 93); links are appended only at line 93, for the
\* page whose record was just appended.
C8_DuplicateDropsLinks ==
  [][ /\ DuplicateText =>
           /\ UNCHANGED crawl
           /\ pc' = "loop" \/ Caught
      /\ (Len(urls_to_visit') > Len(urls_to_visit) /\ pc # "start") =>
           /\ pc = "extend"
           /\ urls_to_visit' = urls_to_visit \o links
           /\ text_content # <<>>
           /\ text_content[Len(text_content)] = PageContent(normalized_url, text)
    ]_vars

\* A page with known text and in-scope, unvisited links has been processed:
\* it has no record and the frontier did not get its links.
C8_Witness ==
  /\ pc = "loop"
  /\ outcome = "html"
  /\ content_hash = md5(text)
  /\ content_hash \in text_hashes
  /\ \A i \in 1..Len(text_content) : text_content[i].url # normalized_url
  /\ links # <<>>
  /\ urls_to_visit = <<>>
  /\ Cardinality(visited_urls) < max_pages

\* The text of a URL before its query and fragment: up to the first "?" or
\* "#", the whole text when there is none.
BeforeQuery(u) ==
  IF \E i \in 1..Len(u) : u[i] \in {"?", "#"}
  THEN Take(u, (CHOOSE i \in 1..Len(u) :
                  u[i] \in {"?", "#"} /\ \A j \in 1..(i - 1) : u[j] \notin {"?", "#"}) - 1)
  ELSE u

C10_LoopTerminates ==
  (pc = "start") ~>
    (pc = "save_open"
       /\ (urls_to_visit = <<>> \/ Cardinality(visited_urls) = max_pages))

\* The loop has ended on the budget with URLs left on the frontier.
C10_Witness ==
  /\ pc = "save_open"
  /\ max_pages > 1
  /\ Cardinality(visited_urls) = max_pages
  /\ urls_to_visit # <<>>
\* The normalized forms of the URLs requests.get was called with, in order.
NormalizedFetched == [i \in 1..Len(fetched) |-> normalize_url(fetched[i])]

\* C11: the frontier is first in, first out. The URLs are fetched in the order
\* of their first insertion into urls_to_visit, the seed first, and none is
\* passed over: the fetched URLs are a prefix of the inserted ones. The entries
\* of text_content are in the order their pages were fetched.
C11_FetchedInInsertionOrder ==
  /\ IsPrefix(NormalizedFetched, inserted)
  /\ \A k, l \in 1..Len(text_content) :
       k < l => \E i, j \in 1..Len(fetched) :
                  /\ i < j
                  /\ NormalizedFetched[i] = text_content[k].url
                  /\ NormalizedFetched[j] = text_content[l].url

\* Three pages were fetched, the last two found on the first, and each gave
\* an entry of text_content.
C11_Witness ==
  /\ pc = "loop"
  /\ Len(fetched) = 3
  /\ Len(text_content) = 3
  /\ Len(inserted) = 3
  /\ Len(urls_to_visit) = 1

\* C12: when the entry taken from the head of the frontier has a normalized
\* URL that is already in visited_urls, the iteration ends there: requests.get
\* is not called, visited_urls, text_hashes and text_content stay as they
\* are, and the frontier only loses its head.
C12_SkipOnlyDequeues ==
  [][(/\ pc = "dequeue"
      /\ normalize_url(Head(urls_to_visit)) \in visited_urls
      /\ ~Caught)
     => /\ pc' = "loop"
        /\ urls_to_visit' = Tail(urls_to_visit)
        /\ fetched' = fetched
        /\ UNCHANGED <<visited_urls, text_hashes, text_content>>]_vars

\* A page linked twice from the seed was fetched and kept; its second entry
\* is at the head of the frontier, before a URL found on that page.
C12_Witness ==
  /\ pc = "dequeue"
  /\ outcome = "html"
  /\ Len(text_content) = 2
  /\ Len(urls_to_visit) = 2
  /\ normalize_url(urls_to_visit[1]) \in visited_urls
  /\ normalize_url(urls_to_visit[2]) \notin visited_urls

\* C13: time.sleep is called after every loop iteration that called
\* requests.get, whatever the page gave: at the loop condition there are as
\* many delays as requests, and a delay lies between any two requests.
C13_Original ==
  /\ delays >= Len(fetched) - 1
  /\ pc = "loop" => delays = Len(fetched)

\* C14: every URL appended to the frontier from the links of a page is
\* normalized, with empty query and fragment, and is not in visited_urls when
\* it is appended; so a link of a page to itself, or to a URL attempted
\* before, is not put on the frontier.
C14_EnqueuedLinksNewAndNormalized ==
  [][(Len(urls_to_visit') > Len(urls_to_visit) /\ pc # "start") =>
       /\ SubSeq(urls_to_visit', 1, Len(urls_to_visit)) = urls_to_visit
       /\ normalized_url \in visited_urls
       /\ \A i \in (Len(urls_to_visit) + 1)..Len(urls_to_visit') :
            /\ urlparse(urls_to_visit'[i]).query = <<>>
            /\ urlparse(urls_to_visit'[i]).fragment = <<>>
            /\ normalize_url(urls_to_visit'[i]) = urls_to_visit'[i]
            /\ urls_to_visit'[i] \notin visited_urls
            /\ urls_to_visit'[i] # normalized_url]_vars

\* The second page kept has put two links on a frontier that was not empty,
\* with the seed and the page itself in visited_urls.
C14_Witness ==
  /\ pc = "loop"
  /\ Cardinality(visited_urls) = 2
  /\ Len(text_content) = 2
  /\ text_content[2].url = normalized_url
  /\ Len(links) = 2
  /\ Len(urls_to_visit) = 3
  /\ SubSeq(urls_to_visit, 2, 3) = links

\* C15: visited_urls and text_hashes only grow, and text_content is only
\* appended to: after every step the sets contain what they contained before
\* and the list begins with the list before.
C15_OnlyGrows ==
  [][/\ visited_urls \subseteq visited_urls'
     /\ text_hashes \subseteq text_hashes'
     /\ IsPrefix(text_content, text_content')]_vars

\* The third page fetched has been appended to text_content after two others
\* and its hash and URL are in the sets.
C15_Witness ==
  /\ pc = "sleep"
  /\ ~handler
  /\ Cardinality(visited_urls) = 3
  /\ Cardinality(text_hashes) = 3
  /\ Len(text_content) = 3

\* C16: in every file save_to_file has written, the page count of the header
\* is the number of page blocks that follow it.
C16_Original ==
  \A d \in 1..Len(docs) :
    docs[d].closed => docs[d].header[1].pages = Len(docs[d].blocks)

\* C17: a run that started the crawl has written the output exactly once when
\* it exits, whether scrape_website ended by itself or KeyboardInterrupt was
\* raised in the loop, in save_to_file or at the prompt of line 149.
C17_Original ==
  pc = "exit" => Len(docs) = 1 /\ docs[1].closed

\* C18: in every state, those a KeyboardInterrupt can be raised in included,
\* |text_content| <= |text_hashes| <= |visited_urls| <= max_pages, and at the
\* loop condition, where an iteration ends and the next begins,
\* |text_content| = |text_hashes|.
C18_SizesOrdered ==
  /\ Len(text_content) <= Cardinality(text_hashes)
  /\ Cardinality(text_hashes) <= Cardinality(visited_urls)
  /\ Cardinality(visited_urls) <= max_pages
  /\ pc = "loop" => Len(text_content) = Cardinality(text_hashes)

\* Between lines 88 and 90 of the third iteration, after a page that gave no
\* entry: the hash of the page is recorded and its entry is not yet appended.
C18_Witness ==
  /\ pc = "append"
  /\ Len(text_content) = 1
  /\ Cardinality(text_hashes) = 2
  /\ Cardinality(visited_urls) = 3
  /\ max_pages = 3

====
